---------------------------- MODULE Spec2Model ----------------------------
(* A model of bvc (buildout version checker), src/bvc/__init__.py:          *)
(*   - VersionsChecker: parse_versions, include_exclude_versions,           *)
(*     fetch_last_versions (sequential and thread pool), fetch_last_version,*)
(*     find_updates, and the part of cmdline that runs them;                *)
(*   - VersionsConfigParser: write_section / write, and the reading of the  *)
(*     written document back (RawConfigParser._read, Python 2).             *)
(* Strings are sequences of one-character strings, so that lower(), ljust(),*)
(* strip(), replace() and LooseVersion's tokenizer are computed, not        *)
(* assumed.                                                                 *)
EXTENDS Integers, Sequences, FiniteSets, TLC

---------------------------------------------------------------------------
(* Characters and Python's str methods                                      *)

UpperCase == <<"A","B","C","D","E","F","G","H","I","J","K","L","M",
               "N","O","P","Q","R","S","T","U","V","W","X","Y","Z">>
LowerCase == <<"a","b","c","d","e","f","g","h","i","j","k","l","m",
               "n","o","p","q","r","s","t","u","v","w","x","y","z">>
DigitChars == <<"0","1","2","3","4","5","6","7","8","9">>

Range(s) == {s[i] : i \in DOMAIN s}

IndexOf(s, c) == CHOOSE i \in DOMAIN s : s[i] = c

\* The characters the model uses, in ASCII order (ord()).
AsciiOrder == <<"\n", " ", "\"", "#", "-", ".">> \o DigitChars \o <<":", ";", "=">>
              \o UpperCase \o <<"[", "]", "_">> \o LowerCase

Ord(c) == IndexOf(AsciiOrder, c)

\* str.lower(), one character
LowerChar(c) == IF c \in Range(UpperCase) THEN LowerCase[IndexOf(UpperCase, c)] ELSE c

\* str.lower()
Lower(s) == [i \in DOMAIN s |-> LowerChar(s[i])]

Last(s) == s[Len(s)]

Front(s) == SubSeq(s, 1, Len(s) - 1)

---------------------------------------------------------------------------
(* distutils.version.LooseVersion, as fetch_last_version uses it            *)

\* The class of a character under component_re = (\d+ | [a-z]+ | \.)
CharClass(c) == IF c \in Range(DigitChars) THEN "digit"
                ELSE IF c \in Range(LowerCase) THEN "lower"
                ELSE IF c = "." THEN "dot"
                ELSE "other"

\* component_re.split(vstring): the maximal runs of digits, of lower-case
\* letters and of unmatched characters; every "." is a piece of its own.
RECURSIVE SplitRuns(_, _)
SplitRuns(v, acc) ==
    IF v = <<>> THEN acc
    ELSE LET c == Head(v)
             k == CharClass(c)
         IN  IF acc # <<>> /\ k # "dot" /\ CharClass(Last(acc)[1]) = k
             THEN SplitRuns(Tail(v), Front(acc) \o <<Append(Last(acc), c)>>)
             ELSE SplitRuns(Tail(v), Append(acc, <<c>>))

\* int(x) of a run of digits
RECURSIVE IntOf(_)
IntOf(run) == IF run = <<>> THEN 0
              ELSE 10 * IntOf(Front(run)) + (IndexOf(DigitChars, Last(run)) - 1)

\* One component: an int when int(x) succeeds, the string otherwise.
Component(run) == IF CharClass(run[1]) = "digit"
                  THEN [num |-> TRUE, n |-> IntOf(run), s |-> <<>>]
                  ELSE [num |-> FALSE, n |-> 0, s |-> run]

\* LooseVersion.parse: the components that are neither empty nor "."
LooseVersion(vstring) ==
    LET runs == SelectSeq(SplitRuns(vstring, <<>>), LAMBDA r : r # <<".">>)
    IN  [i \in DOMAIN runs |-> Component(runs[i])]

\* cmp() of two strings: lexicographic on ord()
RECURSIVE CmpStr(_, _)
CmpStr(a, b) ==
    IF a = <<>> /\ b = <<>> THEN 0
    ELSE IF a = <<>> THEN -1
    ELSE IF b = <<>> THEN 1
    ELSE IF Ord(Head(a)) < Ord(Head(b)) THEN -1
    ELSE IF Ord(Head(a)) > Ord(Head(b)) THEN 1
    ELSE CmpStr(Tail(a), Tail(b))

\* cmp() of two components (Python 2: every int sorts before every str)
CmpComponent(x, y) ==
    IF x.num /\ y.num THEN (IF x.n < y.n THEN -1 ELSE IF x.n > y.n THEN 1 ELSE 0)
    ELSE IF x.num THEN -1
    ELSE IF y.num THEN 1
    ELSE CmpStr(x.s, y.s)

\* cmp() of two lists of components
RECURSIVE CmpList(_, _)
CmpList(a, b) ==
    IF a = <<>> /\ b = <<>> THEN 0
    ELSE IF a = <<>> THEN -1
    ELSE IF b = <<>> THEN 1
    ELSE LET c == CmpComponent(Head(a), Head(b))
         IN  IF c # 0 THEN c ELSE CmpList(Tail(a), Tail(b))

\* LooseVersion(a) > LooseVersion(b)
VersionGreater(a, b) == CmpList(LooseVersion(a), LooseVersion(b)) = 1

\* VersionsChecker.default_version = '0.0.0'
default_version == <<"0", ".", "0", ".", "0">>

\* The loop of fetch_last_version over the records client.search returned.
RECURSIVE FoldMax(_, _, _)
FoldMax(results, package_key, max_version) ==
    IF results = <<>> THEN max_version
    ELSE LET result == Head(results)
         IN  IF Lower(result.name) = package_key
                /\ VersionGreater(result.version, max_version)
             THEN FoldMax(Tail(results), package_key, result.version)
             ELSE FoldMax(Tail(results), package_key, max_version)

\* fetch_last_version(package), given what client.search({'name': package})
\* returned: the pair (package, max_version).
fetch_last_version(package, results) ==
    <<package, FoldMax(results, Lower(package), default_version)>>

---------------------------------------------------------------------------
(* Bounds and the inputs drawn from them                                    *)

MaxPackages == 2
MaxIncludes == 2
MaxExcludes == 1

\* Sequences over S of length at most n
SeqsUpTo(S, n) == UNION {[1..k -> S] : k \in 0..n}

\* Package names: two casings of one package, and another package.
Names == {<<"f">>, <<"F">>, <<"b">>}

V10 == <<"1", ".", "0">>
V20 == <<"2", ".", "0">>
V30 == <<"3", ".", "0">>

\* The pins a manifest may hold: f pinned to the index's version, F to a
\* greater one, b to a lower one.
Pins == {<<<<"f">>, V10>>, <<<<"F">>, V20>>, <<<<"b">>, V10>>}

\* threads: the sequential loop, or a pool of two workers
Threads == {1, 2}

versions_section == <<"v", "e", "r", "s", "i", "o", "n", "s">>

\* The records the index holds; client.search may return near-matches and
\* names in another casing, so a search returns all of them.
Index == << [name |-> <<"F">>,      version |-> V10],
            [name |-> <<"f", "b">>, version |-> V30],
            [name |-> <<"b">>,      version |-> V10],
            [name |-> <<"B">>,      version |-> V20] >>

\* The items of a [versions] section: pairs (key, value) with distinct keys
\* (optionxform = str: keys are case-sensitive in the parser).
Manifests == {m \in SeqsUpTo(Pins, MaxPackages) :
                 \A i, j \in DOMAIN m : i # j => m[i][1] # m[j][1]}

\* The source file: unreadable, without a [versions] section, or with one.
\* (An unreadable file has a content too: it is the opening that fails.)
SourceFiles == {[readable |-> FALSE,
                 sections |-> <<[name |-> versions_section, items |-> <<<<<<"f">>, V10>>>>]>>],
                [readable |-> TRUE,  sections |-> <<>>]}
               \cup {[readable |-> TRUE,
                      sections |-> <<[name |-> versions_section, items |-> m]>>]
                     : m \in Manifests}

---------------------------------------------------------------------------
(* OrderedDict                                                              *)

Keys(od) == [i \in DOMAIN od |-> od[i][1]]

HasKey(od, k) == \E i \in DOMAIN od : od[i][1] = k

\* od[k]
Get(od, k) == od[CHOOSE i \in DOMAIN od : od[i][1] = k][2]

\* od[k] = v: in place for a present key, appended for a new one
Set(od, k, v) == IF HasKey(od, k)
                 THEN [i \in DOMAIN od |-> IF od[i][1] = k THEN <<k, v>> ELSE od[i]]
                 ELSE Append(od, <<k, v>>)

\* OrderedDict(pairs)
RECURSIVE OrderedDict(_)
OrderedDict(pairs) == IF pairs = <<>> THEN <<>>
                      ELSE Set(OrderedDict(Front(pairs)), Last(pairs)[1], Last(pairs)[2])

---------------------------------------------------------------------------
(* VersionsChecker                                                          *)

VARIABLES
    pc,              \* where the run of cmdline / VersionsChecker.__init__ is
    source_file,     \* the file at the source path
    includes, excludes, threads,   \* the options of the run
    failing,         \* the packages whose index query raises (transport error)
    source_versions, \* self.source_versions
    versions,        \* self.versions: the filtered set
    submitted,       \* thread pool: how many tasks executor.submit has queued
    running,         \* thread pool: the tasks a worker is executing
    done,            \* thread pool: the finished tasks
    fetched,         \* the local list `versions` of fetch_last_versions
    yielded,         \* the tasks as_completed has yielded
    last_versions,   \* self.last_versions
    updates,         \* self.updates
    queried,         \* the packages client.search was called for
    exit_status      \* what sys.exit was given: "ok" (0) or "error" (a message)

VARIABLES
    package_arg,       \* fetch_last_version: its argument
    search_results,       \* fetch_last_version: what client.search returned
    returned         \* fetch_last_version: <<>> before the call, then <<its result>>

fetchVars == <<package_arg, search_results, returned>>

VARIABLES
    wpc,             \* where the write branch of cmdline is
    disk,            \* the text of the file at the source path
    original,        \* the text the file held when the run started
    indentation,     \* options.indentation
    new_versions,    \* checker.updates, as the write branch receives them
    wconfig,         \* the write branch's parser: [error, sections]
    written,         \* how many fd.write calls of config.write have returned
    reread           \* the parser that reads the written file back

writeVars == <<wpc, disk, original, indentation, new_versions, wconfig, written, reread>>

checkerVars == <<pc, source_file, includes, excludes, threads, failing,
                 source_versions, versions, submitted, running, done, fetched,
                 yielded, last_versions, updates, queried, exit_status>>

\* config.read(source): the sections of the file; a file that cannot be
\* opened is skipped silently and leaves the parser empty.
read(file) == IF file.readable THEN file.sections ELSE <<>>

has_section(sections, name) == \E i \in DOMAIN sections : sections[i].name = name

\* config.items(section), for a section that exists
items(sections, name) ==
    sections[CHOOSE i \in DOMAIN sections : sections[i].name = name].items

\* parse_versions(source): the items of [versions]; [] on NoSectionError
parse_versions(file) ==
    LET config == read(file)
    IN  IF has_section(config, versions_section)
        THEN items(config, versions_section)
        ELSE <<>>

\* Mutant of AddIncludes: every include is set to the default version,
\* present or not.
RECURSIVE AddIncludesAlways(_, _, _)
AddIncludesAlways(vs, incs, packages_lower) ==
    IF incs = <<>> THEN vs
    ELSE AddIncludesAlways(Set(vs, Head(incs), default_version), Tail(incs), packages_lower)

\* The loop `for include in includes` of include_exclude_versions;
\* packages_lower was computed before the loop.
RECURSIVE AddIncludes(_, _, _)
AddIncludes(vs, incs, packages_lower) ==
    IF incs = <<>> THEN vs
    ELSE AddIncludes(IF Lower(Head(incs)) \notin Range(packages_lower)
                     THEN Set(vs, Head(incs), default_version)
                     ELSE vs,
                     Tail(incs), packages_lower)

\* Mutant of include_exclude_versions: the excludes are compared as given,
\* not lower-cased.
include_exclude_versions_exact(srcv, incs, excs) ==
    LET packages_lower == [i \in DOMAIN srcv |-> Lower(srcv[i][1])]
        included == AddIncludes(srcv, incs, packages_lower)
    IN  SelectSeq(included, LAMBDA e : e[1] \notin Range(excs))

include_exclude_versions(srcv, incs, excs) ==
    LET packages_lower == [i \in DOMAIN srcv |-> Lower(srcv[i][1])]
        included == AddIncludes(srcv, incs, packages_lower)
        excludes_lower == [i \in DOMAIN excs |-> Lower(excs[i])]
    IN  SelectSeq(included, LAMBDA e : Lower(e[1]) \notin Range(excludes_lower))

\* client.search({'name': package})
search(package) == Index

\* Mutant of find_updates: a package is an update only when the index's
\* version is greater under the version ordering.
RECURSIVE find_updates_newer(_, _)
find_updates_newer(vs, lasts) ==
    IF vs = <<>> THEN <<>>
    ELSE (IF VersionGreater(Get(lasts, Head(vs)[1]), Head(vs)[2])
          THEN <<<<Head(vs)[1], Get(lasts, Head(vs)[1])>>>> ELSE <<>>)
         \o find_updates_newer(Tail(vs), lasts)

\* find_updates(versions, last_versions)
RECURSIVE find_updates(_, _)
find_updates(vs, lasts) ==
    IF vs = <<>> THEN <<>>
    ELSE LET package == Head(vs)[1]
             current_version == Head(vs)[2]
             last_version == Get(lasts, package)
         IN  (IF last_version # current_version
              THEN <<<<package, last_version>>>> ELSE <<>>)
             \o find_updates(Tail(vs), lasts)

packages == Keys(versions)

\* The variables of the checker while another part of the program is studied
CheckerIdle ==
    /\ pc = "idle"
    /\ source_file = [readable |-> FALSE, sections |-> <<>>]
    /\ includes = <<>> /\ excludes = <<>> /\ threads = 1 /\ failing = {}
    /\ source_versions = <<>> /\ versions = <<>>
    /\ submitted = 0 /\ running = {} /\ done = {} /\ fetched = <<>> /\ yielded = {}
    /\ last_versions = <<>> /\ updates = <<>> /\ queried = {}
    /\ exit_status = "none"

\* fetch_last_version is not being studied on its own
FetchIdle == package_arg = <<>> /\ search_results = <<>> /\ returned = <<>>

\* the write branch is not being studied
WriteIdle ==
    /\ wpc = "idle" /\ disk = <<>> /\ original = <<>> /\ indentation = 0
    /\ new_versions = <<>> /\ wconfig = <<>> /\ written = 0 /\ reread = <<>>

CheckerInit ==
    /\ FetchIdle
    /\ WriteIdle
    /\ pc = "start"
    /\ source_file \in SourceFiles
    /\ includes \in SeqsUpTo(Names, MaxIncludes)
    /\ excludes \in SeqsUpTo(Names, MaxExcludes)
    /\ threads \in Threads
    /\ failing \in {{}, {<<"b">>}}
    /\ source_versions = <<>>
    /\ versions = <<>>
    /\ submitted = 0
    /\ running = {}
    /\ done = {}
    /\ fetched = <<>>
    /\ yielded = {}
    /\ last_versions = <<>>
    /\ updates = <<>>
    /\ queried = {}
    /\ exit_status = "none"

\* __init__, lines 70-71
Parse ==
    /\ pc = "start"
    /\ source_versions' = OrderedDict(parse_versions(source_file))
    /\ pc' = "parsed"
    /\ UNCHANGED <<fetchVars, writeVars>>
    /\ UNCHANGED <<source_file, includes, excludes, threads, failing, versions,
                   submitted, running, done, fetched, yielded, last_versions,
                   updates, queried, exit_status>>

\* __init__, lines 72-73
Filter ==
    /\ pc = "parsed"
    /\ versions' = include_exclude_versions(source_versions, includes, excludes)
    /\ pc' = "fetching"
    /\ UNCHANGED <<fetchVars, writeVars>>
    /\ UNCHANGED <<source_file, includes, excludes, threads, failing,
                   source_versions, submitted, running, done, fetched, yielded,
                   last_versions, updates, queried, exit_status>>

\* Mutant of Abort: the exception is swallowed and the run exits with 0.
AbortSilently ==
    /\ pc' = "exit"
    /\ exit_status' = "ok"

\* cmdline, lines 223-224: any exception of the constructor ends the run
Abort ==
    /\ pc' = "exit"
    /\ exit_status' = "error"

\* fetch_last_versions, threads <= 1: one iteration of the loop, lines 130-132
FetchSequential ==
    /\ pc = "fetching"
    /\ ~(threads > 1)
    /\ Len(fetched) < Len(packages)
    /\ LET package == packages[Len(fetched) + 1]
       IN  /\ queried' = queried \cup {package}
           /\ IF package \in failing
              THEN Abort /\ UNCHANGED fetched
              ELSE /\ fetched' = Append(fetched, fetch_last_version(package, search(package)))
                   /\ UNCHANGED <<pc, exit_status>>
    /\ UNCHANGED <<fetchVars, writeVars>>
    /\ UNCHANGED <<source_file, includes, excludes, threads, failing,
                   source_versions, versions, submitted, running, done, yielded,
                   last_versions, updates>>

\* fetch_last_versions, threads > 1: executor.submit of the next package
Submit ==
    /\ pc = "fetching"
    /\ threads > 1
    /\ submitted < Len(packages)
    /\ submitted' = submitted + 1
    /\ UNCHANGED <<fetchVars, writeVars>>
    /\ UNCHANGED <<pc, source_file, includes, excludes, threads, failing,
                   source_versions, versions, running, done, fetched, yielded,
                   last_versions, updates, queried, exit_status>>

\* A free worker of the pool takes a queued task and sends its query.
TaskStart(i) ==
    /\ pc \in {"fetching", "shutdown"}
    /\ i \in 1..submitted
    /\ i \notin running \cup done
    /\ Cardinality(running) < threads
    /\ running' = running \cup {i}
    /\ queried' = queried \cup {packages[i]}
    /\ UNCHANGED <<fetchVars, writeVars>>
    /\ UNCHANGED <<pc, source_file, includes, excludes, threads, failing,
                   source_versions, versions, submitted, done, fetched, yielded,
                   last_versions, updates, exit_status>>

\* The task's fetch_last_version returns or raises.
TaskFinish(i) ==
    /\ pc \in {"fetching", "shutdown"}
    /\ i \in running
    /\ running' = running \ {i}
    /\ done' = done \cup {i}
    /\ UNCHANGED <<fetchVars, writeVars>>
    /\ UNCHANGED <<pc, source_file, includes, excludes, threads, failing,
                   source_versions, versions, submitted, fetched, yielded,
                   last_versions, updates, queried, exit_status>>

\* Mutant of Collected: the result is paired with the package at the
\* position it is appended at, as if the tasks completed in order.
CollectedPositional(i) ==
    Append(fetched, <<packages[Len(fetched) + 1],
                      fetch_last_version(packages[i], search(packages[i]))[2]>>)

\* What the local list becomes when as_completed yields task i:
\* versions.append(task.result())
Collected(i) == Append(fetched, fetch_last_version(packages[i], search(packages[i])))

\* One iteration of `for task in futures.as_completed(tasks)`, lines 127-128;
\* task.result() re-raises the task's exception, and the with statement
\* then waits for the other tasks (shutdown(wait=True)).
Collect(i) ==
    /\ pc = "fetching"
    /\ threads > 1
    /\ submitted = Len(packages)
    /\ i \in done \ yielded
    /\ yielded' = yielded \cup {i}
    /\ IF packages[i] \in failing
       THEN pc' = "shutdown" /\ UNCHANGED fetched
       ELSE fetched' = Collected(i) /\ UNCHANGED pc
    /\ UNCHANGED <<fetchVars, writeVars>>
    /\ UNCHANGED <<source_file, includes, excludes, threads, failing,
                   source_versions, versions, submitted, running, done,
                   last_versions, updates, queried, exit_status>>

\* The executor's __exit__ after an exception: every task has finished, and
\* the exception leaves fetch_last_versions and the constructor.
ShutdownRaise ==
    /\ pc = "shutdown"
    /\ done = 1..Len(packages)
    /\ Abort
    /\ UNCHANGED <<fetchVars, writeVars>>
    /\ UNCHANGED <<source_file, includes, excludes, threads, failing,
                   source_versions, versions, submitted, running, done, fetched,
                   yielded, last_versions, updates, queried>>

\* fetch_last_versions returns; __init__, lines 74-77
FetchReturn ==
    /\ pc = "fetching"
    /\ Len(fetched) = Len(packages)
    /\ threads > 1 => submitted = Len(packages)
    /\ last_versions' = OrderedDict(fetched)
    /\ pc' = "fetched"
    /\ UNCHANGED <<fetchVars, writeVars>>
    /\ UNCHANGED <<source_file, includes, excludes, threads, failing,
                   source_versions, versions, submitted, running, done, fetched,
                   yielded, updates, queried, exit_status>>

\* __init__, lines 78-79
Diff ==
    /\ pc = "fetched"
    /\ updates' = OrderedDict(find_updates(versions, last_versions))
    /\ pc' = "diffed"
    /\ UNCHANGED <<fetchVars, writeVars>>
    /\ UNCHANGED <<source_file, includes, excludes, threads, failing,
                   source_versions, versions, submitted, running, done, fetched,
                   yielded, last_versions, queried, exit_status>>

\* cmdline, lines 226-244: the updates are reported and the run exits with 0
Report ==
    /\ pc = "diffed"
    /\ pc' = "exit"
    /\ exit_status' = "ok"
    /\ UNCHANGED <<fetchVars, writeVars>>
    /\ UNCHANGED <<source_file, includes, excludes, threads, failing,
                   source_versions, versions, submitted, running, done, fetched,
                   yielded, last_versions, updates, queried>>

CheckerNext ==
    \/ Parse
    \/ Filter
    \/ FetchSequential
    \/ Submit
    \/ \E i \in 1..Len(versions) : TaskStart(i)
    \/ \E i \in 1..Len(versions) : TaskFinish(i)
    \/ \E i \in 1..Len(versions) : Collect(i)
    \/ ShutdownRaise
    \/ FetchReturn
    \/ Diff
    \/ Report

vars == <<checkerVars, fetchVars, writeVars>>

Spec == CheckerInit /\ [][CheckerNext]_vars

---------------------------------------------------------------------------
(* Properties of a run of the checker                                       *)

\* include_exclude_versions has returned
Filtered == pc \notin {"idle", "start", "parsed"}

LowerKeys(od) == {Lower(od[i][1]) : i \in DOMAIN od}

LowerSet(names) == {Lower(names[i]) : i \in DOMAIN names}

\* The version fetch_last_version finds for a package in the index
Latest(p) == fetch_last_version(p, search(p))[2]

\* C1: the filtered set holds no key whose lower-cased form is the
\* lower-cased form of an excluded name, also for a name both included and
\* excluded.
C1_NoExcludedKey ==
    Filtered => LowerKeys(versions) \cap LowerSet(excludes) = {}

\* A name absent from the manifest is included and, in another casing,
\* excluded, while another package stays.
C1_Witness ==
    /\ Filtered
    /\ versions # <<>>
    /\ \E i \in DOMAIN includes :
          /\ Lower(includes[i]) \notin LowerKeys(source_versions)
          /\ Lower(includes[i]) \in LowerSet(excludes)
          /\ includes[i] \notin Range(excludes)

\* C2: with no excludes, every included name is a key of the filtered set
\* up to case; a name new to the manifest is a key pinned to 0.0.0, and
\* every manifest key keeps its pinned value.
C2_IncludesPresent ==
    (Filtered /\ excludes = <<>>) =>
        /\ \A i \in DOMAIN includes : Lower(includes[i]) \in LowerKeys(versions)
        /\ \A i \in DOMAIN includes :
              Lower(includes[i]) \notin LowerKeys(source_versions)
                  => /\ HasKey(versions, includes[i])
                     /\ Get(versions, includes[i]) = default_version
        /\ \A j \in DOMAIN source_versions :
              /\ HasKey(versions, source_versions[j][1])
              /\ Get(versions, source_versions[j][1]) = source_versions[j][2]

\* One include is new to the manifest, another names a manifest key.
C2_Witness ==
    /\ Filtered
    /\ excludes = <<>>
    /\ \E i \in DOMAIN includes : Lower(includes[i]) \notin LowerKeys(source_versions)
    /\ \E i \in DOMAIN includes : HasKey(source_versions, includes[i])

\* The packages of the filtered set whose index version is not the pinned string
Changed == SelectSeq(versions, LAMBDA e : Latest(e[1]) # e[2])

\* C3: after a successful fetch the updates are exactly the packages of the
\* filtered set whose fetched string differs from the pinned string, in the
\* order of the filtered set, each with its fetched version, whatever the
\* order the tasks completed in; no key is outside the filtered set.
C3_UpdatesAreChangedPins ==
    pc = "diffed" =>
        /\ updates = [i \in DOMAIN Changed |-> <<Changed[i][1], Latest(Changed[i][1])>>]
        /\ Range(Keys(updates)) \subseteq Range(Keys(versions))

\* A pool run whose results arrived out of order, with one package updated
\* (to a lower version) and another unchanged.
C3_Witness ==
    /\ pc = "diffed"
    /\ threads > 1
    /\ Keys(last_versions) # packages
    /\ updates # <<>>
    /\ Len(updates) < Len(versions)
    /\ \E i \in DOMAIN updates :
          VersionGreater(Get(versions, updates[i][1]), updates[i][2])

\* C4: the mapping fetch_last_versions yields depends only on the filtered
\* set and the index: for threads = 1 and for threads > 1, under every
\* completion order, it holds exactly one entry per package, the package's
\* latest version.
C4_SameMappingForAnyThreads ==
    pc = "fetched" =>
        /\ Range(last_versions) = {<<p, Latest(p)>> : p \in Range(packages)}
        /\ Len(last_versions) = Len(packages)

\* A pool run of at least two packages that completed out of order.
C4_Witness ==
    /\ pc = "fetched"
    /\ threads > 1
    /\ Len(packages) >= 2
    /\ Keys(last_versions) # packages

\* A package of the filtered set whose query raises
SomeFetchFails == Range(packages) \cap failing # {}

\* C5 as claimed: when one package's fetch fails and another's succeeds, the
\* run is not aborted and the results of the others are produced.
C5_Original ==
    (pc = "exit" /\ SomeFetchFails /\ Range(packages) \ failing # {}) =>
        /\ exit_status = "ok"
        /\ \A p \in Range(packages) \ failing : HasKey(last_versions, p)

\* C5 amended: a transport error of any package's fetch ends the whole run
\* with an error, for threads = 1 and threads > 1: no result mapping and no
\* update is produced, not even for the packages whose fetch succeeded; a
\* run without a failing fetch exits with 0.
C5_FailureAbortsRun ==
    pc = "exit" =>
        /\ exit_status = "error" <=> SomeFetchFails
        /\ SomeFetchFails => last_versions = <<>> /\ updates = <<>>

\* A pool run that had collected another package's result before the
\* failing task was yielded.
C5_Witness ==
    /\ pc = "exit"
    /\ exit_status = "error"
    /\ threads > 1
    /\ fetched # <<>>
    /\ Range(packages) \ failing # {}

\* C7 as claimed: a source that cannot be opened fails the run before any
\* index query.
C7_Original ==
    (~source_file.readable /\ pc # "start") =>
        /\ pc = "exit"
        /\ exit_status = "error"
        /\ queried = {}

\* What the code does with such a source: it is read as a manifest without
\* pins; the filtered set is the included, not excluded names pinned to
\* 0.0.0, the index is queried for them, and the run exits with 0 unless a
\* fetch fails.
UnreadableIsEmptyManifest ==
    ~source_file.readable =>
        /\ source_versions = <<>>
        /\ Filtered =>
              /\ \A i \in DOMAIN versions :
                    versions[i][1] \in Range(includes) /\ versions[i][2] = default_version
              /\ \A i \in DOMAIN includes :
                    Lower(includes[i]) \notin LowerSet(excludes)
                        => includes[i] \in Range(packages)
        /\ pc = "exit" =>
              /\ exit_status = "error" <=> SomeFetchFails
              /\ exit_status = "ok" => queried = Range(packages)

\* An unreadable source, an include, and a run that queried the index and
\* exited with 0.
UnreadableQueried ==
    /\ ~source_file.readable
    /\ pc = "exit"
    /\ exit_status = "ok"
    /\ queried # {}
    /\ updates # <<>>

NoDuplicateKeys(od) ==
    \A i, j \in DOMAIN od : i # j => Lower(od[i][1]) # Lower(od[j][1])

\* C8 as claimed: for a readable manifest whose keys are distinct when lower-cased,
\* the filtered set, the fetched mapping and the updates hold no two keys
\* equal when lower-cased, whatever the includes and excludes.
C8_Original ==
    (source_file.readable /\ NoDuplicateKeys(parse_versions(source_file))) =>
        /\ NoDuplicateKeys(versions)
        /\ NoDuplicateKeys(last_versions)
        /\ NoDuplicateKeys(updates)

---------------------------------------------------------------------------
(* fetch_last_version on its own: any package, any records                  *)

MaxCandidates == 3

V00 == <<"0", ".", "0">>
V19 == <<"1", ".", "9">>
V110 == <<"1", ".", "1", "0">>

CandidateNames == {<<"f">>, <<"F">>, <<"f", "b">>}
CandidateVersions == {V00, default_version, V10, V19, V110}
Candidates == [name : CandidateNames, version : CandidateVersions]

FetchInit ==
    /\ CheckerIdle
    /\ WriteIdle
    /\ package_arg \in {<<"f">>, <<"F">>}
    /\ search_results \in SeqsUpTo(Candidates, MaxCandidates)
    /\ returned = <<>>

\* the call fetch_last_version(package, service_url)
FetchLastVersion ==
    /\ returned = <<>>
    /\ returned' = <<fetch_last_version(package_arg, search_results)>>
    /\ UNCHANGED <<package_arg, search_results, checkerVars, writeVars>>

FetchNext == FetchLastVersion

SpecFetch == FetchInit /\ [][FetchNext]_vars

\* The versions of the records whose name is the package, up to case
Matching == {search_results[i].version :
                i \in {j \in DOMAIN search_results :
                          Lower(search_results[j].name) = Lower(package_arg)}}

\* v is in S and no version of S is greater under the version ordering
IsMaxOf(v, S) == v \in S /\ \A u \in S : ~VersionGreater(u, v)

\* C9 as claimed: the result is the maximum of the versions of the matching
\* records, and 0.0.0 when no record matches.
C9_Original ==
    returned # <<>> =>
        /\ returned[1][1] = package_arg
        /\ IF Matching = {} THEN returned[1][2] = default_version
                            ELSE IsMaxOf(returned[1][2], Matching)

\* What the code returns: the maximum, under the version ordering, of 0.0.0
\* together with the versions of the matching records; records of another
\* name never influence it, and matching records that are all not greater
\* than 0.0.0 (such as 0.0) give 0.0.0.
MaxWithSentinel ==
    returned # <<>> =>
        /\ returned[1][1] = package_arg
        /\ IsMaxOf(returned[1][2], Matching \cup {default_version})

\* The only matching record has version 0.0, a record of another name has a
\* greater version, and the call returned 0.0.0.
SentinelAboveMatch ==
    /\ returned # <<>>
    /\ Matching = {V00}
    /\ returned[1][2] = default_version
    /\ \E i \in DOMAIN search_results :
          /\ Lower(search_results[i].name) # Lower(package_arg)
          /\ VersionGreater(search_results[i].version, default_version)

---------------------------------------------------------------------------
(* VersionsConfigParser: writing a document and reading it back            *)

IsSpace(c) == c \in {" ", "\n"}

\* str.ljust(width)
ljust(str, width) ==
    IF Len(str) >= width THEN str
    ELSE str \o [i \in 1..(width - Len(str)) |-> " "]

\* str.replace(old, new) for a one-character old
RECURSIVE replace(_, _, _)
replace(str, old, new) ==
    IF str = <<>> THEN <<>>
    ELSE (IF Head(str) = old THEN new ELSE <<Head(str)>>) \o replace(Tail(str), old, new)

\* str.lstrip(), str.rstrip(), str.strip()
RECURSIVE lstrip(_)
lstrip(str) == IF str # <<>> /\ IsSpace(Head(str)) THEN lstrip(Tail(str)) ELSE str

RECURSIVE rstrip(_)
rstrip(str) == IF str # <<>> /\ IsSpace(Last(str)) THEN rstrip(Front(str)) ELSE str

strip(str) == lstrip(rstrip(str))

\* The concatenation of a sequence of strings
RECURSIVE Concat(_)
Concat(strs) == IF strs = <<>> THEN <<>> ELSE Head(strs) \o Concat(Tail(strs))

\* '\n'.join(lines)
RECURSIVE join(_)
join(lines) == IF lines = <<>> THEN <<>>
               ELSE IF Len(lines) = 1 THEN lines[1]
               ELSE lines[1] \o <<"\n">> \o join(Tail(lines))

\* Mutant of ItemLine: the value is written as it is, its continuation
\* lines not indented.
ItemLineRaw(key, value, indent) ==
    ljust(key, indent) \o <<"=", " ">> \o value \o <<"\n">>

\* The fd.write call of write_section for one key, line 34
ItemLine(key, value, indent) ==
    ljust(key, indent) \o <<"=", " ">>
    \o replace(value, "\n", ljust(<<"\n">>, indent + 3)) \o <<"\n">>

\* write_section(fd, section): its fd.write calls
write_section(section, indent) ==
    <<(<<"[">> \o section.name \o <<"]", "\n">>)>>
    \o [i \in DOMAIN section.items |->
            ItemLine(section.items[i][1], section.items[i][2], indent)]

\* write(source): the fd.write calls made once the file is open; every
\* section but the last is followed by an empty line.
RECURSIVE WriteCalls(_, _)
WriteCalls(sections, indent) ==
    IF Len(sections) = 1 THEN write_section(sections[1], indent)
    ELSE write_section(Head(sections), indent) \o << <<"\n">> >>
         \o WriteCalls(Tail(sections), indent)

\* The whole text a completed write leaves in the file
Document(sections, indent) == Concat(WriteCalls(sections, indent))

\* The lines of a text as readline returns them, without their "\n"
RECURSIVE SplitLines(_, _)
SplitLines(text, line) ==
    IF text = <<>> THEN (IF line = <<>> THEN <<>> ELSE <<line>>)
    ELSE IF Head(text) = "\n" THEN <<line>> \o SplitLines(Tail(text), <<>>)
    ELSE SplitLines(Tail(text), Append(line, Head(text)))

\* The first index of a character of set cs in str, 0 if there is none
FirstIn(str, cs) ==
    IF \E i \in DOMAIN str : str[i] \in cs
    THEN CHOOSE i \in DOMAIN str : str[i] \in cs /\ \A j \in 1..(i - 1) : str[j] \notin cs
    ELSE 0

\* line.split(None, 1)[0] of a line that does not start with a space
FirstWord(line) ==
    LET sp == FirstIn(line, {" ", "\n"})
    IN  IF sp = 0 THEN line ELSE SubSeq(line, 1, sp - 1)

\* SECTCRE = \[(?P<header>[^]]+)\] matches at the start of the line
IsHeader(line) == line[1] = "[" /\ FirstIn(line, {"]"}) >= 3

HeaderName(line) == SubSeq(line, 2, FirstIn(line, {"]"}) - 1)

\* OPTCRE = (?P<option>[^:=\s][^:=]*)\s*(?P<vi>[:=])\s*(?P<value>.*)$
IsOption(line) == line[1] \notin {":", "=", " ", "\n"} /\ FirstIn(line, {":", "="}) > 0

\* optname = optionxform(option.rstrip()), with optionxform = str
OptionName(line) == rstrip(SubSeq(line, 1, FirstIn(line, {":", "="}) - 1))

\* optval: the value group, cut at a ';' that follows a space (for a ';'
\* at index 0, optval[pos-1] is the last character), stripped; '""' is ''.
OptionValue(line) ==
    LET value == lstrip(SubSeq(line, FirstIn(line, {":", "="}) + 1, Len(line)))
        pos == FirstIn(value, {";"})
        cut == IF pos > 0 /\ IsSpace(IF pos = 1 THEN Last(value) ELSE value[pos - 1])
               THEN SubSeq(value, 1, pos - 1)
               ELSE value
        optval == strip(cut)
    IN  IF optval = <<"\"", "\"">> THEN <<>> ELSE optval

SectionIndex(sections, name) ==
    IF has_section(sections, name)
    THEN CHOOSE i \in DOMAIN sections : sections[i].name = name
    ELSE 0

\* The parser before a file is read
EmptyParser == [error |-> FALSE, sections |-> <<>>, cursect |-> 0, optname |-> <<>>]

\* RawConfigParser._read, one line. st.sections[i].items holds, for each
\* key, the list of the value's lines; cursect is the index of the current
\* section (0: None), optname is <<>> (None) or <<name>>; error records a
\* MissingSectionHeaderError or a ParsingError.
ReadLine(st, line) ==
    IF strip(line) = <<>> \/ line[1] \in {"#", ";"} THEN st
    ELSE IF Lower(FirstWord(line)) = <<"r", "e", "m">> /\ line[1] \in {"r", "R"} THEN st
    ELSE IF IsSpace(line[1]) /\ st.cursect # 0 /\ st.optname # <<>>
    THEN [st EXCEPT !.sections[st.cursect].items =
             LET its == st.sections[st.cursect].items
                 k == CHOOSE i \in DOMAIN its : its[i][1] = st.optname[1]
             IN  [its EXCEPT ![k] = <<its[k][1], Append(its[k][2], strip(line))>>]]
    ELSE IF IsHeader(line)
    THEN LET at == SectionIndex(st.sections, HeaderName(line))
         IN  IF at # 0
             THEN [st EXCEPT !.cursect = at, !.optname = <<>>]
             ELSE [st EXCEPT !.sections = Append(st.sections,
                                                 [name |-> HeaderName(line), items |-> <<>>]),
                             !.cursect = Len(st.sections) + 1,
                             !.optname = <<>>]
    ELSE IF st.cursect = 0 THEN [st EXCEPT !.error = TRUE]
    ELSE IF IsOption(line)
    THEN [st EXCEPT !.sections[st.cursect].items =
             Set(st.sections[st.cursect].items, OptionName(line), <<OptionValue(line)>>),
                    !.optname = <<OptionName(line)>>]
    ELSE [st EXCEPT !.error = TRUE]

RECURSIVE ReadLines(_, _)
ReadLines(st, lines) ==
    IF lines = <<>> THEN st ELSE ReadLines(ReadLine(st, Head(lines)), Tail(lines))

\* config.read(source) of a readable file: [error, sections], the values'
\* lines joined with "\n" at the end of _read.
ReadText(text) ==
    LET st == ReadLines(EmptyParser, SplitLines(text, <<>>))
    IN  [error |-> st.error,
         sections |-> [i \in DOMAIN st.sections |->
                          [name |-> st.sections[i].name,
                           items |-> [k \in DOMAIN st.sections[i].items |->
                                         <<st.sections[i].items[k][1],
                                           join(st.sections[i].items[k][2])>>]]]]

\* config.set('versions', package, version) for every update, lines 235-236
RECURSIVE SetAll(_, _)
SetAll(its, upd) ==
    IF upd = <<>> THEN its
    ELSE SetAll(Set(its, Head(upd)[1], Head(upd)[2]), Tail(upd))

\* cmdline, lines 233-236: add the section if it is missing, set the updates
WithUpdates(sections, upd) ==
    LET secs == IF has_section(sections, versions_section) THEN sections
                ELSE Append(sections, [name |-> versions_section, items |-> <<>>])
        at == SectionIndex(secs, versions_section)
    IN  [secs EXCEPT ![at].items = SetAll(secs[at].items, upd)]

---------------------------------------------------------------------------
(* The write branch of cmdline, and the written file read back              *)

MaxLines == 2

\* The lines a hand-written value is made of: empty, plain, with an inline
\* comment, looking like a comment, looking like an option.
ValueLines == {<<>>, <<"1">>, <<"1", " ", ";", "2">>, <<"#", "1">>, <<"a", "=", "1">>}

\* A pinned value may be the empty string
EmptyValue == <<>>

SourceValues == {join(ls) : ls \in UNION {[1..k -> ValueLines] : k \in 1..MaxLines}}

SourceKeys == {<<"f">>, <<"F", "o", "o">>}

buildout_section == [name |-> <<"b", "u", "i", "l", "d", "o", "u", "t">>,
                     items |-> << <<<<"p", "a", "r", "t", "s">>, <<"x">>>> >>]

\* The [versions] items of the source document, as its author typed them
SourceItems == {<< <<k, v>> >> : k \in SourceKeys, v \in SourceValues}
               \cup {<< <<k, v>>, <<<<"b">>, EmptyValue>> >> : k \in SourceKeys, v \in SourceValues}

\* The source documents: a [versions] section alone, or after a [buildout]
\* section, or no [versions] section at all.
SourceDocuments ==
    {<<buildout_section>>}
    \cup {<<[name |-> versions_section, items |-> its]>> : its \in SourceItems}
    \cup {<<buildout_section, [name |-> versions_section, items |-> its]>> : its \in SourceItems}

\* The text of a source document as its author typed it: "key = value",
\* the continuation lines of a value indented by two spaces, an empty line
\* between two sections.
SourceSection(section) ==
    <<"[">> \o section.name \o <<"]", "\n">>
    \o Concat([i \in DOMAIN section.items |->
                  section.items[i][1] \o <<" ", "=", " ">>
                  \o replace(section.items[i][2], "\n", <<"\n", " ", " ">>) \o <<"\n">>])

SourceText(sections) ==
    join([i \in DOMAIN sections |-> SourceSection(sections[i])])

\* options.indentation: argparse takes any int; 24 is the default
Indentations == {-3, -2, -1, 0, 2, 24}

\* checker.updates: a new version for f, or for b
UpdateSets == {<< <<<<"f">>, V20>> >>, << <<<<"b">>, V20>> >>}

WriteInit ==
    /\ CheckerIdle
    /\ FetchIdle
    /\ wpc = "start"
    /\ \E doc \in SourceDocuments : original = SourceText(doc)
    /\ disk = original
    /\ indentation \in Indentations
    /\ new_versions \in UpdateSets
    /\ wconfig = <<>>
    /\ written = 0
    /\ reread = <<>>

\* cmdline, lines 230-232: config.read(source)
ReadSource ==
    /\ wpc = "start"
    /\ wconfig' = <<ReadText(disk)>>
    /\ wpc' = IF ReadText(disk).error THEN "failed" ELSE "parsed"
    /\ UNCHANGED <<disk, original, indentation, new_versions, written, reread,
                   checkerVars, fetchVars>>

\* cmdline, lines 233-236
SetUpdates ==
    /\ wpc = "parsed"
    /\ wconfig' = <<[wconfig[1] EXCEPT !.sections = WithUpdates(@, new_versions)]>>
    /\ wpc' = "updated"
    /\ UNCHANGED <<disk, original, indentation, new_versions, written, reread,
                   checkerVars, fetchVars>>

\* What the file holds once open(source, 'wb') has returned
Opened(text) == <<>>

\* write, line 44: the file is opened for writing
Open ==
    /\ wpc = "updated"
    /\ disk' = Opened(disk)
    /\ written' = 0
    /\ wpc' = "writing"
    /\ UNCHANGED <<original, indentation, new_versions, wconfig, reread,
                   checkerVars, fetchVars>>

\* The fd.write calls of this write
calls == WriteCalls(wconfig[1].sections, indentation)

\* write, lines 45-49: the next fd.write call
WriteCall ==
    /\ wpc = "writing"
    /\ written < Len(calls)
    /\ disk' = disk \o calls[written + 1]
    /\ written' = written + 1
    /\ UNCHANGED <<wpc, original, indentation, new_versions, wconfig, reread,
                   checkerVars, fetchVars>>

\* The write fails between two fd.write calls (an exception in the with
\* block): the file is closed with what was written so far.
Interrupt ==
    /\ wpc = "writing"
    /\ written < Len(calls)
    /\ wpc' = "interrupted"
    /\ UNCHANGED <<disk, original, indentation, new_versions, wconfig, written,
                   reread, checkerVars, fetchVars>>

\* write returns: the with block closes the file
Close ==
    /\ wpc = "writing"
    /\ written = Len(calls)
    /\ wpc' = "closed"
    /\ UNCHANGED <<disk, original, indentation, new_versions, wconfig, written,
                   reread, checkerVars, fetchVars>>

\* The written file is parsed again, as parse_versions does on the next run
ReadBack ==
    /\ wpc = "closed"
    /\ reread' = <<ReadText(disk)>>
    /\ wpc' = "read"
    /\ UNCHANGED <<disk, original, indentation, new_versions, wconfig, written,
                   checkerVars, fetchVars>>

WriteNext ==
    \/ ReadSource
    \/ SetUpdates
    \/ Open
    \/ WriteCall
    \/ Interrupt
    \/ Close
    \/ ReadBack

SpecWrite == WriteInit /\ [][WriteNext]_vars

\* The items of [versions] as a mapping: the set of its (key, value) pairs
VersionsOf(parser) ==
    IF has_section(parser.sections, versions_section)
    THEN Range(items(parser.sections, versions_section))
    ELSE {}

IsProperPrefix(a, b) == Len(a) < Len(b) /\ a = SubSeq(b, 1, Len(a))

\* C6 as claimed: after a write that failed at any point the file is either
\* the complete rewritten document or the original file.
C6_Original ==
    wpc = "interrupted" =>
        disk \in {original, Document(wconfig[1].sections, indentation)}

\* What the code leaves: opening the file truncates it, and a write that
\* fails after k fd.write calls leaves the text of those k calls, a proper
\* prefix of the rewritten document (empty for k = 0); a write that
\* completes leaves the complete rewritten document.
InterruptedLeavesPrefix ==
    /\ wpc = "interrupted" =>
          /\ disk = Concat(SubSeq(calls, 1, written))
          /\ IsProperPrefix(disk, Document(wconfig[1].sections, indentation))
    /\ wpc \in {"closed", "read"} => disk = Document(wconfig[1].sections, indentation)

\* A write that failed between two keys of [versions], leaving a part of
\* the document that is not the original file.
InterruptedMidway ==
    /\ wpc = "interrupted"
    /\ written > 1
    /\ disk # original
    /\ Len(disk) < Len(Document(wconfig[1].sections, indentation))

=============================================================================
